---- MODULE Spec2Model ----
(***************************************************************************)
(* Model of paginate.Page (src/paginate/__init__.py): the constructor's    *)
(* page-boundary arithmetic and the pager()/_range() link-list rendering.  *)
(*                                                                         *)
(* Python values are modelled as follows.                                  *)
(*   - None is the integer None, outside every number the model reaches.   *)
(*   - A str is a sequence of tokens: one-character strings, and one token *)
(*     for each piece of markup, attribute dictionary or $name of a        *)
(*     template; '%s' % n is Str(n), the decimal digits of n.              *)
(*   - The requested page is a tagged record: an int, a str or None.       *)
(*   - A raised exception is the name of its class, "" when none was       *)
(*     raised.                                                             *)
(***************************************************************************)
EXTENDS Integers, Sequences, FiniteSets, TLC

\* ---------------------------------------------------------------- bounds
MaxLen == 7          \* longest collection
MaxPerPage == 3      \* largest items_per_page
MaxCount == 8        \* largest explicitly supplied item_count
MaxRadius == 2       \* largest radius of a ~N~ token

\* ---------------------------------------------------------------- values
None == -1000

Min(a, b) == IF a < b THEN a ELSE b
Max(a, b) == IF a > b THEN a ELSE b

Digits == <<"0", "1", "2", "3", "4", "5", "6", "7", "8", "9">>

DigitOf(c) == CHOOSE d \in 0..9 : Digits[d + 1] = c

IsDigit(c) == c \in {"0", "1", "2", "3", "4", "5", "6", "7", "8", "9"}

RECURSIVE StrNat(_)
StrNat(n) == IF n < 10 THEN <<Digits[n + 1]>>
             ELSE StrNat(n \div 10) \o <<Digits[(n % 10) + 1]>>

\* '%s' % (n,) for an int n
Str(n) == IF n < 0 THEN <<"-">> \o StrNat(0 - n) ELSE StrNat(n)

RECURSIVE DigitsValue(_, _)
DigitsValue(s, acc) == IF s = <<>> THEN acc
                       ELSE DigitsValue(Tail(s), 10 * acc + DigitOf(Head(s)))

\* int(s) for a str s: an optional sign and at least one decimal digit;
\* anything else raises ValueError, reported here as None.
IntOfStr(s) ==
    LET signed == s # <<>> /\ Head(s) \in {"-", "+"}
        body == IF signed THEN Tail(s) ELSE s
    IN  IF body = <<>> \/ \E i \in 1..Len(body) : ~IsDigit(body[i])
        THEN None
        ELSE IF signed /\ Head(s) = "-" THEN 0 - DigitsValue(body, 0)
             ELSE DigitsValue(body, 0)

\* The requested page numbers the constructor is called with.
IntArg(n) == [t |-> "int", v |-> n, s |-> <<>>]
StrArg(s) == [t |-> "str", v |-> 0, s |-> s]
NoneArg == [t |-> "none", v |-> 0, s |-> <<>>]

PageArgs ==
    {IntArg(n) : n \in -1..(MaxLen + 1)}
    \cup {StrArg(s) : s \in {<<>>, <<"a">>, <<"2">>, <<"0", "3">>, <<"-", "1">>, <<"2", "a">>}}
    \cup {NoneArg}

\* The n items of a collection; the items are distinct and differ from
\* their positions.
Elems(n) == [i \in 1..n |-> 100 + i]

\* A collection: a list, an object with __len__ whose __getitem__ is missing
\* or raises TypeError ("unsliceable"), or an object without __len__
\* ("unsized").
Coll(kind, n) == [kind |-> kind, elems |-> Elems(n)]

Collections ==
    {Coll("list", n) : n \in 0..MaxLen}
    \cup {Coll(k, n) : k \in {"unsliceable", "unsized"}, n \in {0, 2}}

\* The url argument of the constructor: NoUrl stands for the default None,
\* the other value for the URL of the page currently shown.
NoUrl == "None"

UrlArgs == {NoUrl, "/list"}

\* ------------------------------------------------------------ constructor
\* try: self.page = int(page) / except (ValueError, TypeError): self.page = 1
ParsePage(arg) ==
    IF arg.t = "int" THEN arg.v
    ELSE IF arg.t = "str" THEN (IF IntOfStr(arg.s) = None THEN 1 ELSE IntOfStr(arg.s))
    ELSE 1

\* item_count if given, else len(self.collection); len() of an object
\* without __len__ raises TypeError, reported here as None.
ItemCount(coll, count) ==
    IF count # None THEN count
    ELSE IF coll.kind = "unsized" THEN None
    ELSE Len(coll.elems)

\* mutant of PageCount: the division is taken of item_count, not item_count - 1
PageCount_Truncating(count, perPage) == (count \div perPage) + 1

PageCount(count, perPage) == ((count - 1) \div perPage) + 1

LastPage(first, count) == first + count - 1

\* mutant of ClampPage: a page below first_page is not corrected
ClampPage_UpperOnly(p, first, last) == IF p > last THEN last ELSE p

\* Make sure that the requested page number is the range of valid pages
ClampPage(p, first, last) ==
    IF p > last THEN last
    ELSE IF p < first THEN first
    ELSE p

\* mutant of FirstItem: the page number is taken as 0-based
FirstItem_ZeroBased(p, perPage) == p * perPage + 1

FirstItem(p, perPage) == (p - 1) * perPage + 1

\* mutant of LastItem: the last page is taken to be full
LastItem_Uncapped(firstItem, perPage, count) == firstItem + perPage - 1

\* mutant of LastItem: one item too many
LastItem_OffByOne(firstItem, perPage, count) == Min(firstItem + perPage, count)

LastItem(firstItem, perPage, count) == Min(firstItem + perPage - 1, count)

\* self.collection[first:last] raises TypeError unless the collection is a list
Sliceable(coll) == coll.kind = "list"

\* The position a slice bound i denotes in a sequence of n items
SliceBound(i, n) == IF i < 0 THEN Max(n + i, 0) ELSE Min(i, n)

\* seq[first:last]
PySlice(seq, first, last) ==
    LET a == SliceBound(first, Len(seq))
        b == SliceBound(last, Len(seq))
    IN  [k \in 1..Max(b - a, 0) |-> seq[a + k]]

\* mutant of Slice: the slice takes the item after last_item too
Slice_Inclusive(coll, first, last) == PySlice(coll.elems, first, last + 1)

\* mutant of Slice: the slice starts at first_item, not at first_item - 1
Slice_FromFirstItem(coll, first, last) == PySlice(coll.elems, first + 1, last)

\* list(self.collection[first:last]) for a list
Slice(coll, first, last) == PySlice(coll.elems, first, last)

\* "except TypeError(e):" evaluates TypeError(e) once a TypeError reaches the
\* clause; the name e is bound nowhere, so that evaluation raises NameError.
SliceHandler == "NameError"

\* mutant of PreviousPage: the first page has a previous page
PreviousPage_AtFirst(p, first) == IF p >= first THEN p - 1 ELSE None

PreviousPage(p, first) == IF p > first THEN p - 1 ELSE None

\* mutant of NextPage: the last page has a next page
NextPage_PastLast(p, last) == IF p <= last THEN p + 1 ELSE None

NextPage(p, last) == IF p < last THEN p + 1 ELSE None

\* mutant of NoItems: first_page is 1 also without items
NoItems_FirstPageSet ==
    [first_page |-> 1, page_count |-> 0, last_page |-> None,
     first_item |-> None, last_item |-> None,
     previous_page |-> None, next_page |-> None, items |-> <<>>]

\* The fields assigned when no items are available
NoItems ==
    [first_page |-> None, page_count |-> 0, last_page |-> None,
     first_item |-> None, last_item |-> None,
     previous_page |-> None, next_page |-> None, items |-> <<>>]

VARIABLES
    pc,              \* "new": before __init__; "page": constructed;
                     \* "raised": __init__ raised
    raised,          \* the exception __init__ raised, "" when none
    collection,      \* argument: the collection
    page_arg,        \* argument: the requested page
    item_count_arg,  \* argument: item_count, None when not given
    url_arg,         \* argument: url
    page, items_per_page, item_count,
    first_page, page_count, last_page,
    first_item, last_item, items,
    previous_page, next_page,
    curpage_attr, dotdot_attr, separator,   \* attributes pager() assigns
    result,          \* what the last pager() call returned or raised
    calls,           \* the pages the last pager() call passed to _pagerlink
    radius,          \* radius of the last _range call, None when there was none
    nav_items,       \* nav_items of the last _range call when it returned or raised
    link_map,        \* the link map built last
    url_calls,       \* the pages it asked the link-generation function for
    threads          \* the pager() calls of two threads on the one Page: how
                     \* far each got, its arguments, what it returned

ctor_args == <<collection, page_arg, item_count_arg, url_arg>>

fields == <<page, items_per_page, item_count, first_page, page_count, last_page,
            first_item, last_item, items, previous_page, next_page>>

pager_attrs == <<curpage_attr, dotdot_attr, separator>>

pager_out == <<result, calls, radius, nav_items>>

linkmap_out == <<link_map, url_calls>>

vars == <<pc, raised, ctor_args, fields, pager_attrs, pager_out, linkmap_out,
          threads>>

\* An attribute pager() has not assigned yet
Unset == "unset"

NoResult == [exc |-> "", out |-> <<Unset>>]

\* The two threads that share the Page
Threads == {"A", "B"}

\* A thread that has not called pager()
NoCall ==
    [pc |-> "idle", format |-> <<>>, show |-> FALSE, sep |-> <<Unset>>,
     curAttr |-> Unset, dotAttr |-> Unset, result |-> NoResult]

\* An entry of a link map: its kind and its page number; the entry that is
\* null, and the gap, which has no page number
Entry(kind, n) == [kind |-> kind, number |-> n]

NullEntry == Entry("null", None)

GapEntry == Entry("Gap", None)

\* The all-null link map of the given radius
DegenerateLinkMap(r) ==
    [firstPage |-> NullEntry, lastPage |-> NullEntry,
     previousPage |-> NullEntry, nextPage |-> NullEntry,
     currentPage |-> NullEntry, rangePages |-> <<>>, radius |-> r]

\* No link map was built yet
NoLinkMap == DegenerateLinkMap(None)

\* The arguments of one constructor call, drawn from the given sets; no field
\* is set yet.
CtorInitOver(collections, pageArgs, perPages, itemCounts) ==
    /\ pc = "new"
    /\ raised = ""
    /\ collection \in collections
    /\ page_arg \in pageArgs
    /\ item_count_arg \in itemCounts
    /\ url_arg \in UrlArgs
    /\ items_per_page \in perPages
    /\ page = None /\ item_count = None
    /\ first_page = None /\ page_count = None /\ last_page = None
    /\ first_item = None /\ last_item = None /\ items = <<>>
    /\ previous_page = None /\ next_page = None
    /\ curpage_attr = Unset /\ dotdot_attr = Unset /\ separator = <<Unset>>
    /\ result = NoResult /\ calls = <<>> /\ radius = None /\ nav_items = <<>>
    /\ link_map = NoLinkMap /\ url_calls = <<>>
    /\ threads = [t \in Threads |-> NoCall]

CtorInit ==
    CtorInitOver(Collections, PageArgs, 1..MaxPerPage, {None} \cup 0..MaxCount)

\* Constructor calls on a list, with a positive int page and no item_count
Init ==
    /\ CtorInit
    /\ collection.kind = "list"
    /\ page_arg.t = "int" /\ page_arg.v >= 1 /\ page_arg.v <= MaxLen
    /\ item_count_arg = None

\* Page.__init__(collection, page, items_per_page, item_count, url): the url
\* argument is stored nowhere (the assignment to self.url is commented out),
\* so the instance gets no attribute url.
PageInit ==
    /\ pc = "new"
    /\ LET p0 == ParsePage(page_arg)
           n == ItemCount(collection, item_count_arg)
       IN  IF n = None
           THEN \* len(self.collection) raised
                /\ pc' = "raised" /\ raised' = "TypeError"
                /\ page' = p0
                /\ UNCHANGED <<item_count, first_page, page_count, last_page,
                               first_item, last_item, items, previous_page, next_page>>
           ELSE IF n > 0
           THEN LET fp == 1
                    cnt == PageCount(n, items_per_page)
                    lp == LastPage(fp, cnt)
                    p == ClampPage(p0, fp, lp)
                    fi == FirstItem(p, items_per_page)
                    li == LastItem(fi, items_per_page, n)
                IN  /\ item_count' = n
                    /\ first_page' = fp
                    /\ page_count' = cnt
                    /\ last_page' = lp
                    /\ page' = p
                    /\ first_item' = fi
                    /\ last_item' = li
                    /\ IF Sliceable(collection)
                       THEN /\ pc' = "page" /\ raised' = ""
                            /\ items' = Slice(collection, fi - 1, li)
                            /\ previous_page' = PreviousPage(p, fp)
                            /\ next_page' = NextPage(p, lp)
                       ELSE /\ pc' = "raised" /\ raised' = SliceHandler
                            /\ UNCHANGED <<items, previous_page, next_page>>
           ELSE /\ pc' = "page" /\ raised' = ""
                /\ item_count' = n
                /\ page' = p0
                /\ first_page' = NoItems.first_page
                /\ page_count' = NoItems.page_count
                /\ last_page' = NoItems.last_page
                /\ first_item' = NoItems.first_item
                /\ last_item' = NoItems.last_item
                /\ previous_page' = NoItems.previous_page
                /\ next_page' = NoItems.next_page
                /\ items' = NoItems.items
    /\ UNCHANGED <<ctor_args, items_per_page, pager_attrs, pager_out, linkmap_out,
                   threads>>

\* The constructor alone, over all its arguments
CtorSpec == CtorInit /\ [][PageInit]_vars

\* ------------------------------------------------------------------ pager
\* An attribute dictionary is the token that stands for its contents; the
\* empty dictionary is the only falsy one.
EmptyDict == "{}"

Truthy(attr) == attr # EmptyDict

\* make_html_tag('span', **attr)
make_html_tag(attr) == <<"<span ", attr, ">">>

\* mutant of _pagerlink: the instance has a url and the A tag is returned
_pagerlink_Returns(p, text) ==
    [exc |-> "", out |-> <<"<a href=">> \o Str(p) \o <<">">> \o text \o <<"</a>">>]

\* Page._pagerlink(page, text): link_url = url_generator(self.url, ...) reads
\* the attribute url of the instance. No code assigns it, so the read raises
\* AttributeError before url_generator and HTML.a are reached, whatever the
\* page and the text are.
_pagerlink(p, text) == [exc |-> "AttributeError", out |-> <<>>]

\* The locals of Page._range when it starts: nav_items is empty and text is
\* not bound; exc is the exception that ended the call, calls the pages
\* passed to _pagerlink so far.
RangeStart == [nav_items |-> <<>>, text |-> <<>>, bound |-> FALSE,
               exc |-> "", calls |-> <<>>]

\* nav_items.append( self._pagerlink(p, text) )
AppendLink(s, p, text) ==
    IF s.exc # "" THEN s
    ELSE IF _pagerlink(p, text).exc # ""
    THEN [s EXCEPT !.exc = _pagerlink(p, text).exc, !.calls = Append(@, p)]
    ELSE [s EXCEPT !.nav_items = Append(@, _pagerlink(p, text).out),
                   !.calls = Append(@, p)]

\* Insert dots: with a truthy dotdot_attr the SPAN wraps the local text, which
\* raises UnboundLocalError when nothing was assigned to it yet.
AppendDots(s, dotAttr) ==
    IF s.exc # "" THEN s
    ELSE IF Truthy(dotAttr)
    THEN IF ~s.bound THEN [s EXCEPT !.exc = "UnboundLocalError"]
         ELSE LET t == make_html_tag(dotAttr) \o s.text \o <<"</span>">>
              IN  [s EXCEPT !.text = t, !.nav_items = Append(@, t)]
    ELSE LET t == <<".", ".">>
         IN  [s EXCEPT !.text = t, !.bound = TRUE, !.nav_items = Append(@, t)]

\* The body of "for thispage in range(leftmost_page, rightmost_page+1)"
AppendPage(s, thispage, curAttr) ==
    IF s.exc # "" THEN s
    ELSE IF thispage = page
    THEN IF Truthy(curAttr)
         THEN IF ~s.bound THEN [s EXCEPT !.exc = "UnboundLocalError"]
              ELSE LET t == make_html_tag(curAttr) \o s.text \o <<"</span>">>
                   IN  [s EXCEPT !.text = t, !.nav_items = Append(@, t)]
         ELSE LET t == Str(thispage)
              IN  [s EXCEPT !.text = t, !.bound = TRUE, !.nav_items = Append(@, t)]
    ELSE AppendLink([s EXCEPT !.text = Str(thispage), !.bound = TRUE],
                    thispage, Str(thispage))

RECURSIVE RangeLoop(_, _, _, _)
RangeLoop(s, thispage, rightmost, curAttr) ==
    IF thispage > rightmost THEN s
    ELSE RangeLoop(AppendPage(s, thispage, curAttr), thispage + 1, rightmost, curAttr)

leftmost_page(r) == Max(first_page, page - r)

\* mutant of rightmost_page: the window ends one page early
rightmost_page_OneShort(r) == Min(last_page, page + r) - 1

rightmost_page(r) == Min(last_page, page + r)

\* Create a link to the first page (unless we are on the first page or there
\* would be no need to insert '..' spacers)
FirstLink(s, leftmost) ==
    IF page # first_page /\ first_page < leftmost
    THEN AppendLink(s, first_page, Str(first_page))
    ELSE s

\* Insert dots if there are pages between the first page and the currently
\* displayed page range
LeftDots(s, leftmost, dotAttr) ==
    IF leftmost - first_page > 1 THEN AppendDots(s, dotAttr) ELSE s

\* Insert dots if there are pages between the displayed page numbers and the
\* end of the page range
RightDots(s, rightmost, dotAttr) ==
    IF last_page - rightmost > 1 THEN AppendDots(s, dotAttr) ELSE s

\* Create a link to the very last page (unless we are on the last page or
\* there would be no need to insert '..' spacers)
LastLink(s, rightmost) ==
    IF page # last_page /\ rightmost < last_page
    THEN AppendLink(s, last_page, Str(last_page))
    ELSE s

\* Page._range for the radius r, up to the final join: the locals when the
\* call returns or raises
_range(r, curAttr, dotAttr) ==
    LastLink(
        RightDots(
            RangeLoop(
                LeftDots(FirstLink(RangeStart, leftmost_page(r)), leftmost_page(r), dotAttr),
                leftmost_page(r), rightmost_page(r), curAttr),
            rightmost_page(r), dotAttr),
        rightmost_page(r))

\* sep.join(strs)
RECURSIVE JoinFrom(_, _, _)
JoinFrom(strs, sep, i) ==
    IF i > Len(strs) THEN <<>>
    ELSE IF i = Len(strs) THEN strs[i]
    ELSE strs[i] \o sep \o JoinFrom(strs, sep, i + 1)

Join(strs, sep) == JoinFrom(strs, sep, 1)

\* How many digits stand in s from position i on
RECURSIVE DigitRun(_, _)
DigitRun(s, i) ==
    IF i > Len(s) \/ ~IsDigit(s[i]) THEN 0 ELSE 1 + DigitRun(s, i + 1)

\* Whether ~(\d+)~ matches s at position i
RangeTokenAt(s, i) ==
    /\ s[i] = "~"
    /\ DigitRun(s, i + 1) > 0
    /\ i + DigitRun(s, i + 1) + 1 <= Len(s)
    /\ s[i + DigitRun(s, i + 1) + 1] = "~"

\* The text, the exception, the _pagerlink calls and the last _range call
\* after _range returned or raised s for the radius r
AfterRange(acc, r, s, sep) ==
    [out |-> IF s.exc = "" THEN acc.out \o Join(s.nav_items, sep) ELSE <<>>,
     exc |-> s.exc,
     calls |-> acc.calls \o s.calls,
     radius |-> r,
     nav_items |-> s.nav_items]

\* The radius int(regexp_match.group(1)) of the token at position i
RadiusAt(format, i) ==
    DigitsValue(SubSeq(format, i + 1, i + DigitRun(format, i + 1)), 0)

\* re.sub(r'~(\d+)~', self._range, format), from position i of format on.
\* acc.out is the text so far; acc.radius and acc.nav_items are those of the
\* last _range call.
RECURSIVE ReSub(_, _, _, _, _, _)
ReSub(format, i, acc, sep, curAttr, dotAttr) ==
    IF acc.exc # "" \/ i > Len(format) THEN acc
    ELSE IF RangeTokenAt(format, i)
    THEN ReSub(format, i + DigitRun(format, i + 1) + 2,
               AfterRange(acc, RadiusAt(format, i),
                          _range(RadiusAt(format, i), curAttr, dotAttr), sep),
               sep, curAttr, dotAttr)
    ELSE ReSub(format, i + 1, [acc EXCEPT !.out = Append(@, format[i])],
               sep, curAttr, dotAttr)

symbol_first == <<"<", "<">>
symbol_last == <<">", ">">>
symbol_previous == <<"<">>
symbol_next == <<">">>

\* The four link entries of the dictionary passed to safe_substitute, in the
\* order they are written: the condition under which _pagerlink is called,
\* the page and the text it is called with.
LinkEntries ==
    <<[name |-> "$link_first", wanted |-> page > first_page,
       target |-> first_page, text |-> symbol_first],
      [name |-> "$link_last", wanted |-> page < last_page,
       target |-> last_page, text |-> symbol_last],
      [name |-> "$link_previous", wanted |-> previous_page # None /\ previous_page # 0,
       target |-> previous_page, text |-> symbol_previous],
      [name |-> "$link_next", wanted |-> next_page # None /\ next_page # 0,
       target |-> next_page, text |-> symbol_next]>>

LinkNames == {"$link_first", "$link_last", "$link_previous", "$link_next"}

\* Before the dictionary is built: no link value, no exception, no call
NoLinks == [values |-> [n \in LinkNames |-> <<>>], exc |-> "", calls |-> <<>>]

\* The dictionary is built before safe_substitute is called: each of the four
\* values is computed, whether the format names it or not, and the first
\* _pagerlink call that raises ends pager().
RECURSIVE LinkValuesFrom(_, _)
LinkValuesFrom(i, acc) ==
    IF i > Len(LinkEntries) \/ acc.exc # "" THEN acc
    ELSE IF ~LinkEntries[i].wanted THEN LinkValuesFrom(i + 1, acc)
    ELSE LinkValuesFrom(i + 1,
            [acc EXCEPT !.values[LinkEntries[i].name] =
                            _pagerlink(LinkEntries[i].target, LinkEntries[i].text).out,
                        !.exc = _pagerlink(LinkEntries[i].target, LinkEntries[i].text).exc,
                        !.calls = Append(@, LinkEntries[i].target)])

LinkValues == LinkValuesFrom(1, NoLinks)

\* The $names safe_substitute knows
Placeholders ==
    {"$first_page", "$last_page", "$page", "$page_count", "$items_per_page",
     "$first_item", "$last_item", "$item_count",
     "$link_first", "$link_last", "$link_previous", "$link_next"}

\* What safe_substitute puts for one token: a known $name is replaced by its
\* value, anything else is kept.
Substitute(tok, links) ==
    IF tok \notin Placeholders THEN <<tok>> ELSE
    CASE tok = "$first_page" -> Str(first_page)
      [] tok = "$last_page" -> Str(last_page)
      [] tok = "$page" -> Str(page)
      [] tok = "$page_count" -> Str(page_count)
      [] tok = "$items_per_page" -> Str(items_per_page)
      [] tok = "$first_item" -> Str(first_item)
      [] tok = "$last_item" -> Str(last_item)
      [] tok = "$item_count" -> Str(item_count)
      [] tok \in LinkNames -> links[tok]
      [] OTHER -> <<tok>>

\* Template(text).safe_substitute({...})
RECURSIVE SubstituteFrom(_, _, _)
SubstituteFrom(text, i, links) ==
    IF i > Len(text) THEN <<>>
    ELSE Substitute(text[i], links) \o SubstituteFrom(text, i + 1, links)

SafeSubstitute(text, links) == SubstituteFrom(text, 1, links)

\* The ~N~ token of radius r
RangeToken(r) == <<"~">> \o Str(r) \o <<"~">>

\* The formats pager() is called with: '$link_first F $link_last' and, for
\* each radius N, '$link_previous ~N~ $link_next $page'
Formats ==
    {<<"$link_first", " ", "F", " ", "$link_last">>}
    \cup {<<"$link_previous", " ">> \o RangeToken(r) \o <<" ", "$link_next", " ", "$page">> :
             r \in 0..MaxRadius}

Separators == {<<" ">>, <<"_">>}

AttrDicts == {EmptyDict, "{'style': 's'}"}

\* mutant of ShortCircuit: a single page is always shown
ShortCircuit_EmptyOnly(show_if_single_page) == page_count = 0

\* Don't show navigator if there is no more than one page
ShortCircuit(show_if_single_page) ==
    page_count = 0 \/ (page_count = 1 /\ ~show_if_single_page)

\* mutant of PagerKeeps: pager() puts the Page back on its first page
PagerKeeps_PageReset ==
    /\ page' = first_page
    /\ UNCHANGED <<pc, raised, ctor_args, items_per_page, item_count,
                   first_page, page_count, last_page, first_item, last_item,
                   items, previous_page, next_page, linkmap_out>>

\* pager(), _range and _pagerlink assign only the option attributes of the
\* instance: the fields the constructor set and the items stay as they are
PagerKeeps == UNCHANGED <<pc, raised, ctor_args, fields, linkmap_out>>

\* pager() after re.sub ran _range over the format: what it raised is raised,
\* else the four link_* values are built and substituted
AfterReSub(sub) ==
    IF sub.exc # ""
    THEN [result |-> [exc |-> sub.exc, out |-> <<>>], calls |-> sub.calls,
          radius |-> sub.radius, nav_items |-> sub.nav_items]
    ELSE LET links == LinkValues
         IN  [result |-> IF links.exc # ""
                         THEN [exc |-> links.exc, out |-> <<>>]
                         ELSE [exc |-> "",
                               out |-> SafeSubstitute(sub.out, links.values)],
              calls |-> sub.calls \o links.calls,
              radius |-> sub.radius, nav_items |-> sub.nav_items]

\* pager() from the short-circuit on, with the separator and the attribute
\* dicts _range finds on the instance
PagerOutcome(format, show_if_single_page, sep, curAttr, dotAttr) ==
    IF ShortCircuit(show_if_single_page)
    THEN [result |-> [exc |-> "", out |-> <<>>], calls |-> <<>>,
          radius |-> None, nav_items |-> <<>>]
    ELSE CHOOSE o \in {AfterReSub(sub) :
                          sub \in {ReSub(format, 1,
                                         [out |-> <<>>, exc |-> "", calls |-> <<>>,
                                          radius |-> None, nav_items |-> <<>>],
                                         sep, curAttr, dotAttr)}} : TRUE

\* Page.pager(format, show_if_single_page, separator, curpage_attr, dotdot_attr)
\* run by one caller from its first line to its return
pager(format, show_if_single_page, sep, curAttr, dotAttr) ==
    /\ pc = "page"
    /\ curpage_attr' = curAttr
    /\ separator' = sep
    /\ dotdot_attr' = dotAttr
    /\ \E o \in {PagerOutcome(format, show_if_single_page, sep, curAttr, dotAttr)} :
           /\ result' = o.result
           /\ calls' = o.calls
           /\ radius' = o.radius
           /\ nav_items' = o.nav_items
    /\ PagerKeeps
    /\ UNCHANGED threads

Next ==
    \/ PageInit
    \/ \E format \in Formats, show \in BOOLEAN, sep \in Separators,
          curAttr \in AttrDicts, dotAttr \in AttrDicts :
          pager(format, show, sep, curAttr, dotAttr)

Spec == Init /\ [][Next]_vars

\* pager() called with formats that name no link_* placeholder and hold no
\* range token: '$page' and 'Page $page of $page_count'
PlainFormats ==
    {<<"$page">>, <<"Page", " ", "$page", " ", "of", " ", "$page_count">>}

PlainNext ==
    \/ PageInit
    \/ \E format \in PlainFormats, show \in BOOLEAN, sep \in Separators,
          curAttr \in AttrDicts, dotAttr \in AttrDicts :
          pager(format, show, sep, curAttr, dotAttr)

PlainSpec == Init /\ [][PlainNext]_vars

\* Two threads call pager() on the one Page. A call is the statements of
\* pager() in their order: self.curpage_attr = ..., self.separator = ...,
\* self.dotdot_attr = ..., and then the short-circuit, re.sub and the
\* substitution, in which _range reads the three attributes back from self.
\* format and show_if_single_page are locals of the call.
ThreadFormats ==
    {<<"$link_first", " ", "F", " ", "$link_last">>,
     <<"$link_previous", " ">> \o RangeToken(0) \o <<" ", "$link_next", " ", "$page">>}

pager_curpage_attr(t, format, sep, curAttr, dotAttr) ==
    /\ pc = "page"
    /\ threads[t].pc = "idle"
    /\ curpage_attr' = curAttr
    /\ threads' = [threads EXCEPT ![t] =
                       [pc |-> "separator", format |-> format, show |-> TRUE,
                        sep |-> sep, curAttr |-> curAttr, dotAttr |-> dotAttr,
                        result |-> NoResult]]
    /\ UNCHANGED <<separator, dotdot_attr, pager_out>>
    /\ PagerKeeps

pager_separator(t) ==
    /\ threads[t].pc = "separator"
    /\ separator' = threads[t].sep
    /\ threads' = [threads EXCEPT ![t].pc = "dotdot_attr"]
    /\ UNCHANGED <<curpage_attr, dotdot_attr, pager_out>>
    /\ PagerKeeps

pager_dotdot_attr(t) ==
    /\ threads[t].pc = "dotdot_attr"
    /\ dotdot_attr' = threads[t].dotAttr
    /\ threads' = [threads EXCEPT ![t].pc = "re.sub"]
    /\ UNCHANGED <<curpage_attr, separator, pager_out>>
    /\ PagerKeeps

pager_return(t) ==
    /\ threads[t].pc = "re.sub"
    /\ \E o \in {PagerOutcome(threads[t].format, threads[t].show,
                               separator, curpage_attr, dotdot_attr)} :
           /\ threads' = [threads EXCEPT ![t].pc = "returned",
                                         ![t].result = o.result]
           /\ result' = o.result
           /\ calls' = o.calls
           /\ radius' = o.radius
           /\ nav_items' = o.nav_items
    /\ UNCHANGED pager_attrs
    /\ PagerKeeps

ThreadsInit ==
    /\ CtorInitOver({Coll("list", n) : n \in 1..MaxPerPage}, {IntArg(1)},
                    {1, MaxPerPage}, {None})
    /\ url_arg = NoUrl

ThreadsNext ==
    \/ PageInit
    \/ \E t \in Threads, format \in ThreadFormats, sep \in Separators,
          curAttr \in AttrDicts, dotAttr \in AttrDicts :
          pager_curpage_attr(t, format, sep, curAttr, dotAttr)
    \/ \E t \in Threads : pager_separator(t)
    \/ \E t \in Threads : pager_dotdot_attr(t)
    \/ \E t \in Threads : pager_return(t)

ThreadsSpec == ThreadsInit /\ [][ThreadsNext]_vars

\* The scenario of test_link_map: 109 items, 15 on a page, and a format whose
\* range token has the radius 4
ScenarioItems == 109
ScenarioPerPage == 15
ScenarioRadius == 4

ScenarioPages == {IntArg(n) : n \in {0, 1, 2, 4, 7, 8, 100}}

\* '~4~' and '$link_first $link_previous ~4~ $link_next $link_last'
ScenarioFormats ==
    {RangeToken(ScenarioRadius),
     <<"$link_first", " ", "$link_previous", " ">> \o RangeToken(ScenarioRadius)
        \o <<" ", "$link_next", " ", "$link_last">>}

ScenarioInit ==
    CtorInitOver({Coll("list", ScenarioItems)}, ScenarioPages, {ScenarioPerPage}, {None})

ScenarioNext ==
    \/ PageInit
    \/ \E format \in ScenarioFormats, show \in BOOLEAN, sep \in Separators,
          curAttr \in AttrDicts, dotAttr \in AttrDicts :
          pager(format, show, sep, curAttr, dotAttr)

ScenarioSpec == ScenarioInit /\ [][ScenarioNext]_vars

\* --------------------------------------------------------------- link map
\* The link map is no code of src/paginate/__init__.py; what follows is the
\* buildRange and buildLinkMap of the specification.

\* Step 4 of buildRange: the pages from p to right in ascending order, the
\* current page as a CurrentPage entry, every other page as a Page entry
RECURSIVE WindowEntries(_, _)
WindowEntries(p, right) ==
    IF p > right THEN <<>>
    ELSE <<Entry(IF p = page THEN "CurrentPage" ELSE "Page", p)>>
         \o WindowEntries(p + 1, right)

\* buildRange(state, radius), steps 1 to 6
buildRange(r) ==
    LET left == Max(first_page, page - r)
        right == Min(last_page, page + r)
    IN  (IF page # first_page /\ first_page < left
         THEN <<Entry("Page", first_page)>> ELSE <<>>)
        \o (IF left - first_page > 1 THEN <<GapEntry>> ELSE <<>>)
        \o WindowEntries(left, right)
        \o (IF last_page - right > 1 THEN <<GapEntry>> ELSE <<>>)
        \o (IF page # last_page /\ right < last_page
            THEN <<Entry("Page", last_page)>> ELSE <<>>)

\* A singleton entry: null if the field of the state is null
SingletonEntry(kind, field) ==
    IF field = None THEN NullEntry ELSE Entry(kind, field)

\* mutant of LinkMapOf: the degenerate record does not keep the radius
LinkMapOf_RadiusDropped(r) ==
    IF page_count = 0 THEN DegenerateLinkMap(0)
    ELSE [firstPage |-> SingletonEntry("FirstPage", first_page),
          lastPage |-> SingletonEntry("LastPage", last_page),
          previousPage |-> SingletonEntry("PreviousPage", previous_page),
          nextPage |-> SingletonEntry("NextPage", next_page),
          currentPage |-> SingletonEntry("CurrentPage", page),
          rangePages |-> buildRange(r), radius |-> r]

\* The record buildLinkMap(state, radius, urlFor) returns
LinkMapOf(r) ==
    IF page_count = 0 THEN DegenerateLinkMap(r)
    ELSE [firstPage |-> SingletonEntry("FirstPage", first_page),
          lastPage |-> SingletonEntry("LastPage", last_page),
          previousPage |-> SingletonEntry("PreviousPage", previous_page),
          nextPage |-> SingletonEntry("NextPage", next_page),
          currentPage |-> SingletonEntry("CurrentPage", page),
          rangePages |-> buildRange(r), radius |-> r]

\* The page numbers of the entries of a sequence that have one of the kinds
RECURSIVE NumbersOf(_, _)
NumbersOf(entries, kinds) ==
    IF entries = <<>> THEN <<>>
    ELSE (IF Head(entries).kind \in kinds THEN <<Head(entries).number>> ELSE <<>>)
         \o NumbersOf(Tail(entries), kinds)

\* urlFor is invoked once for each linked entry: not for a null entry, a gap
\* or the current page
UrlForCalls(map) ==
    NumbersOf(<<map.firstPage, map.lastPage, map.previousPage, map.nextPage>>,
              {"FirstPage", "LastPage", "PreviousPage", "NextPage"})
    \o NumbersOf(map.rangePages, {"Page"})

\* buildLinkMap(state, radius, urlFor) on a constructed Page
buildLinkMap(r) ==
    /\ pc = "page"
    /\ link_map' = LinkMapOf(r)
    /\ url_calls' = UrlForCalls(LinkMapOf(r))
    /\ UNCHANGED <<pc, raised, ctor_args, fields, pager_attrs, pager_out, threads>>

LinkMapNext ==
    \/ PageInit
    \/ \E r \in 0..MaxRadius : buildLinkMap(r)

LinkMapSpec == Init /\ [][LinkMapNext]_vars

\* ------------------------------------------------------ claims: constructor
\* A Page object the constructor returned
Constructed == pc = "page"

\* The least k with k * b >= a
Ceil(a, b) == CHOOSE k \in 0..a : k * b >= a /\ (k - 1) * b < a

\* The integer the caller asked for, None when the argument is absent or
\* is not a number
Requested ==
    IF page_arg.t = "int" THEN page_arg.v
    ELSE IF page_arg.t = "str" THEN IntOfStr(page_arg.s)
    ELSE None

\* C1: for item_count > 0 a constructed Page has first_page = 1,
\* page_count = ceil(item_count / items_per_page) and last_page = page_count.
C1_PageCountIsCeiling ==
    (Constructed /\ item_count > 0) =>
        /\ first_page = 1
        /\ page_count = Ceil(item_count, items_per_page)
        /\ last_page = page_count

\* C1 witness: a collection that fills its pages exactly, and more than one page
C1_Witness ==
    /\ Constructed /\ item_count > 0
    /\ item_count % items_per_page = 0
    /\ items_per_page > 1 /\ page_count > 1

\* C2: for item_count > 0 no requested page makes the constructor raise, and
\* the page lies in [first_page, last_page]: the requested page when that is
\* in range, the nearest bound when it is not, 1 when it is absent or not a
\* number.
C2_PageClamped ==
    (pc # "new" /\ collection.kind = "list" /\ item_count > 0) =>
        /\ Constructed /\ raised = ""
        /\ first_page <= page /\ page <= last_page
        /\ Requested = None => page = 1
        /\ (Requested # None /\ Requested < first_page) => page = first_page
        /\ (Requested # None /\ Requested > last_page) => page = last_page
        /\ (Requested # None /\ first_page <= Requested /\ Requested <= last_page)
              => page = Requested

\* C2 witness: a request beyond the last of several pages was corrected
C2_Witness ==
    /\ Constructed /\ item_count > 0 /\ last_page > 1
    /\ Requested # None /\ Requested > last_page
    /\ page = last_page

\* C3: for item_count > 0, first_item = (page - 1) * items_per_page + 1 and
\* last_item is the smaller of first_item + items_per_page - 1 and item_count.
C3_ItemBounds ==
    (Constructed /\ item_count > 0) =>
        /\ first_item = (page - 1) * items_per_page + 1
        /\ last_item <= first_item + items_per_page - 1
        /\ last_item <= item_count
        /\ last_item \in {first_item + items_per_page - 1, item_count}

\* C3 witness: a last page that is not full
C3_Witness ==
    /\ Constructed /\ item_count > 0 /\ page > 1
    /\ first_item = (page - 1) * items_per_page + 1
    /\ last_item = item_count
    /\ last_item < first_item + items_per_page - 1

\* C4: for item_count > 0, previous_page is None exactly on the first page
\* and page - 1 elsewhere; next_page is None exactly on the last page and
\* page + 1 elsewhere.
C4_Neighbours ==
    (Constructed /\ item_count > 0) =>
        /\ (previous_page = None) <=> (page = first_page)
        /\ page # first_page => previous_page = page - 1
        /\ (next_page = None) <=> (page = last_page)
        /\ page # last_page => next_page = page + 1

\* C4 witness: the last of several pages
C4_Witness ==
    /\ Constructed /\ item_count > 0
    /\ page = last_page /\ page > first_page
    /\ next_page = None /\ previous_page = page - 1

\* C5: when the collection's length is item_count > 0, the items of the Page
\* are the elements at the 0-based positions first_item - 1 up to, not
\* including, last_item, in the collection's order.
C5_ItemsAreSlice ==
    (Constructed /\ item_count > 0 /\ Len(collection.elems) = item_count) =>
        /\ Len(items) = last_item - first_item + 1
        /\ \A pos \in (first_item - 1)..(last_item - 1) :
              items[pos - (first_item - 1) + 1] = collection.elems[pos + 1]

\* C5 witness: several items on a page after the first
C5_Witness ==
    /\ Constructed /\ item_count > 0 /\ Len(collection.elems) = item_count
    /\ page > 1 /\ Len(items) >= 2
    /\ items[1] = collection.elems[first_item]

\* C6: a page shows at most items_per_page items, and exactly items_per_page
\* on every page but the last.
C6_PageSize ==
    (Constructed /\ item_count > 0) =>
        /\ last_item - first_item + 1 <= items_per_page
        /\ page # last_page => last_item - first_item + 1 = items_per_page

\* C6 witness: a full page before a shorter last page
C6_Witness ==
    /\ Constructed /\ item_count > 0 /\ items_per_page > 1
    /\ page < last_page
    /\ last_item - first_item + 1 = items_per_page
    /\ item_count % items_per_page # 0

\* C7 as stated: with item_count = 0, page_count = 0 and first_page,
\* last_page, page, first_item, last_item, previous_page and next_page are
\* all None.
C7_AllNullWhenEmpty ==
    (Constructed /\ item_count = 0) =>
        /\ page_count = 0
        /\ first_page = None /\ last_page = None /\ page = None
        /\ first_item = None /\ last_item = None
        /\ previous_page = None /\ next_page = None

\* C7 amended: with item_count = 0, page_count = 0 and first_page, last_page,
\* first_item, last_item, previous_page and next_page are all None, while
\* page is not None: it is an integer.
C7_BoundsNullWhenEmpty ==
    (Constructed /\ item_count = 0) =>
        /\ page_count = 0
        /\ first_page = None /\ last_page = None
        /\ first_item = None /\ last_item = None
        /\ previous_page = None /\ next_page = None
        /\ page # None /\ page \in Int

\* C7 witness: an empty collection asked for its second page
C7_Witness ==
    /\ Constructed /\ item_count = 0 /\ page_count = 0
    /\ Requested = 2 /\ page # None

\* C8: over an empty collection a requested page below 1 is corrected to 1.
C8_EmptyPageCorrected ==
    (Constructed /\ item_count = 0 /\ Requested # None /\ Requested < 1) =>
        page = 1

\* ------------------------------------------------------------ claims: _range
\* The last pager() call on a constructed Page ran _range
RangeCalled == pc = "page" /\ radius # None

\* left = max(first_page, page - radius), right = min(last_page, page + radius)
WindowLeft == IF first_page > page - radius THEN first_page ELSE page - radius

WindowRight == IF last_page < page + radius THEN last_page ELSE page + radius

\* '..', bare or in the SPAN of some attributes
IsGap(e) ==
    \/ e = <<".", ".">>
    \/ \E attr \in AttrDicts : e = make_html_tag(attr) \o <<".", ".">> \o <<"</span>">>

\* The number p that is not a link, bare or in the SPAN of some attributes
IsCurrentPageEntry(e, p) ==
    \/ e = Str(p)
    \/ \E attr \in AttrDicts : e = make_html_tag(attr) \o Str(p) \o <<"</span>">>

\* The A tag that links to page p and shows text
Anchor(p, text) == <<"<a href=">> \o Str(p) \o <<">">> \o text \o <<"</a>">>

\* The link to page p that shows the number p
IsPageEntry(e, p) == e = Anchor(p, Str(p))

\* Where nav_items holds the entry of page p
EntriesOf(p) ==
    {i \in 1..Len(nav_items) :
        IF p = page THEN IsCurrentPageEntry(nav_items[i], p)
        ELSE IsPageEntry(nav_items[i], p)}

\* C9: _range emits every page p of [left, right] exactly once and in
\* ascending order, the current page as an entry that is not a link and every
\* other page as a link to p; exactly one current-page entry occurs.
C9_WindowEntries ==
    RangeCalled =>
        /\ \A p \in WindowLeft..WindowRight : Cardinality(EntriesOf(p)) = 1
        /\ \A p, q \in WindowLeft..WindowRight :
              p < q => \A i \in EntriesOf(p), j \in EntriesOf(q) : i < j
        /\ Cardinality({i \in 1..Len(nav_items) :
              \E p \in first_page..last_page : IsCurrentPageEntry(nav_items[i], p)}) = 1

\* A gap that only the link to the first page precedes
GapOnLeft ==
    \E i \in 1..Len(nav_items) :
        /\ IsGap(nav_items[i])
        /\ \A j \in 1..(i - 1) : IsPageEntry(nav_items[j], first_page)

\* A gap that only the link to the last page follows
GapOnRight ==
    \E i \in 1..Len(nav_items) :
        /\ IsGap(nav_items[i])
        /\ \A j \in (i + 1)..Len(nav_items) : IsPageEntry(nav_items[j], last_page)

\* C10: a _range call emits a gap on the left exactly when
\* left - first_page > 1 and on the right exactly when last_page - right > 1;
\* when the distance is 1 the neighbouring first (last) page is shown itself,
\* next to the window.
C10_GapsWhenPagesHidden ==
    RangeCalled =>
        /\ GapOnLeft <=> (WindowLeft - first_page > 1)
        /\ GapOnRight <=> (last_page - WindowRight > 1)
        /\ (WindowLeft - first_page = 1) =>
              (nav_items # <<>> /\ IsPageEntry(nav_items[1], first_page))
        /\ (last_page - WindowRight = 1) =>
              (nav_items # <<>> /\ IsPageEntry(nav_items[Len(nav_items)], last_page))

\* An entry for first_page that stands first, before every entry of the window
LeadingFirstPage ==
    /\ nav_items # <<>>
    /\ IsPageEntry(nav_items[1], first_page)
    /\ \A p \in WindowLeft..WindowRight : \A k \in EntriesOf(p) : 1 < k

\* An entry for last_page that stands last, after every entry of the window
TrailingLastPage ==
    /\ nav_items # <<>>
    /\ IsPageEntry(nav_items[Len(nav_items)], last_page)
    /\ \A p \in WindowLeft..WindowRight : \A k \in EntriesOf(p) : k < Len(nav_items)

\* C11: _range emits a leading link to first_page exactly when
\* page # first_page and first_page < left, and a trailing link to last_page
\* exactly when page # last_page and right < last_page; with a single page
\* the range is the current-page entry alone.
C11_LeadingTrailingLinks ==
    RangeCalled =>
        /\ LeadingFirstPage <=> (page # first_page /\ first_page < WindowLeft)
        /\ TrailingLastPage <=> (page # last_page /\ WindowRight < last_page)
        /\ (page = first_page /\ page = last_page) =>
              (Len(nav_items) = 1 /\ IsCurrentPageEntry(nav_items[1], page))

\* ------------------------------------------------------------ claims: pager
\* pager() was called on a constructed Page
PagerCalled == pc = "page" /\ result # NoResult

\* The call returned the rendering of the format
Rendered == PagerCalled /\ result.exc = "" /\ result.out # <<>>

\* sub stands somewhere in str
Occurs(sub, str) ==
    \E k \in 0..(Len(str) - Len(sub)) :
        \A i \in 1..Len(sub) : str[k + i] = sub[i]

\* Page p is in the output: as an entry of the range, or as the link that
\* shows symbol
PresentInOutput(p, symbol) ==
    \/ \E i \in 1..Len(nav_items) :
          /\ IsPageEntry(nav_items[i], p) \/ IsCurrentPageEntry(nav_items[i], p)
          /\ Occurs(nav_items[i], result.out)
    \/ Occurs(Anchor(p, symbol), result.out)

C13_ScenarioRange ==
    (RangeCalled /\ item_count = ScenarioItems /\ items_per_page = ScenarioPerPage
        /\ radius = ScenarioRadius) =>
        /\ page = 1 =>
              /\ Len(nav_items) = 6
              /\ IsCurrentPageEntry(nav_items[1], 1)
              /\ \A p \in 2..5 : IsPageEntry(nav_items[p], p)
              /\ IsGap(nav_items[6])
        /\ page = 8 =>
              /\ Len(nav_items) = 6
              /\ IsGap(nav_items[1])
              /\ \A p \in 4..7 : IsPageEntry(nav_items[p - 2], p)
              /\ IsCurrentPageEntry(nav_items[6], 8)

\* C14: a pager() call with page_count = 0, or with page_count = 1 and
\* show_if_single_page false, returns the empty string, expands no range
\* token and calls _pagerlink not once.
C14_ShortCircuitBeforeSubstitution ==
    [][\A format \in Formats, show \in BOOLEAN, sep \in Separators,
          curAttr \in AttrDicts, dotAttr \in AttrDicts :
          ((page_count = 0 \/ (page_count = 1 /\ ~show))
              /\ pager(format, show, sep, curAttr, dotAttr)) =>
              /\ result' = [exc |-> "", out |-> <<>>]
              /\ radius' = None
              /\ calls' = <<>>]_vars

\* C14 witness: pager() on a single page returned the empty string
C14_Witness ==
    /\ PagerCalled /\ page_count = 1
    /\ result = [exc |-> "", out |-> <<>>]
    /\ radius = None /\ calls = <<>>

\* The value the claim gives a link placeholder: the link to page p that
\* shows symbol when wanted, the empty string when not
LinkOrEmpty(wanted, p, symbol) == IF wanted THEN Anchor(p, symbol) ELSE <<>>

\* '$link_first F $link_last'
FirstLastFormat == <<"$link_first", " ", "F", " ", "$link_last">>

\* C15: with page_count > 1 pager() renders the format; $link_first is the
\* link to first_page when page > first_page and empty on the first page,
\* $link_last the link to last_page when page < last_page and empty on the
\* last page, $link_previous the link to page - 1 when previous_page is not
\* None and $link_next the link to page + 1 when next_page is not None, each
\* empty otherwise.
C15_LinkPlaceholders ==
    [][\A format \in Formats, show \in BOOLEAN, sep \in Separators,
          curAttr \in AttrDicts, dotAttr \in AttrDicts :
          (page_count > 1 /\ pager(format, show, sep, curAttr, dotAttr)) =>
              /\ result'.exc = ""
              /\ format = FirstLastFormat =>
                    result'.out =
                        LinkOrEmpty(page > first_page, first_page, symbol_first)
                        \o <<" ", "F", " ">>
                        \o LinkOrEmpty(page < last_page, last_page, symbol_last)
              /\ format # FirstLastFormat =>
                    /\ Occurs(LinkOrEmpty(previous_page # None, page - 1, symbol_previous)
                                \o <<" ">>, result'.out)
                    /\ Occurs(<<" ">> \o LinkOrEmpty(next_page # None, page + 1, symbol_next)
                                \o <<" ">> \o Str(page), result'.out)]_vars

\* C16: with more than one page, pager() replaces the range token by the
\* entries of _range, joined by the separator, whatever the separator is: the
\* output holds the entries in their order with the separator between them.
C16_RangeJoined ==
    [][\A r \in 0..MaxRadius, show \in BOOLEAN, sep \in Separators,
          curAttr \in AttrDicts, dotAttr \in AttrDicts :
          (page_count > 1
              /\ pager(<<"$link_previous", " ">> \o RangeToken(r)
                          \o <<" ", "$link_next", " ", "$page">>,
                       show, sep, curAttr, dotAttr)) =>
              /\ result'.exc = ""
              /\ Len(nav_items') > 1
              /\ \A p \in WindowLeft'..WindowRight' : EntriesOf(p)' # {}
              /\ Occurs(Join(nav_items', sep), result'.out)]_vars

\* ----------------------------------------------------------- claims: link map
\* A link map was built for a constructed Page
LinkMapBuilt == pc = "page" /\ link_map # NoLinkMap

C18_NeighboursClamped ==
    (LinkMapBuilt /\ item_count > 0) =>
        /\ link_map.previousPage # NullEntry
        /\ link_map.nextPage # NullEntry
        /\ first_page <= link_map.previousPage.number
        /\ link_map.nextPage.number <= last_page
        /\ page = first_page => link_map.previousPage.number = first_page
        /\ page = last_page => link_map.nextPage.number = last_page

\* C19: with page_count = 0, buildLinkMap returns the record whose five
\* singleton entries are null, whose rangePages is empty and whose radius is
\* the radius asked for, and it invokes urlFor not once.
C19_DegenerateLinkMap ==
    [][\A r \in 0..MaxRadius :
          (page_count = 0 /\ buildLinkMap(r)) =>
              /\ link_map'.firstPage = NullEntry /\ link_map'.lastPage = NullEntry
              /\ link_map'.previousPage = NullEntry /\ link_map'.nextPage = NullEntry
              /\ link_map'.currentPage = NullEntry
              /\ link_map'.rangePages = <<>>
              /\ link_map'.radius = r
              /\ url_calls' = <<>>]_vars

\* C19 witness: the link map of an empty collection, asked with a radius
\* that is not 0
C19_Witness ==
    /\ LinkMapBuilt /\ page_count = 0 /\ item_count = 0
    /\ link_map = DegenerateLinkMap(link_map.radius)
    /\ link_map.radius > 0
    /\ url_calls = <<>>

\* ------------------------------------------------- claims: link target
\* The exception the module's documentation announces when no URL generator
\* is available
ConfigurationError == "NotImplementedError"

\* The format names a link placeholder or holds a range token
ReferencesLinks(format) ==
    \E i \in 1..Len(format) : format[i] \in LinkNames \/ RangeTokenAt(format, i)

\* C20: a pager() call on a Page constructed without a url that is not
\* short-circuited, with a format that names a link placeholder or holds a
\* range token, raises the configuration error and returns no output.
C20_ConfigurationError ==
    [][\A format \in Formats, show \in BOOLEAN, sep \in Separators,
          curAttr \in AttrDicts, dotAttr \in AttrDicts :
          (url_arg = NoUrl /\ page_count > 0 /\ (page_count > 1 \/ show)
              /\ ReferencesLinks(format)
              /\ pager(format, show, sep, curAttr, dotAttr)) =>
              result' = [exc |-> ConfigurationError, out |-> <<>>]]_vars

\* ---------------------------------------------------- claims: collections
\* C21: constructing a Page over a collection that cannot report its length
\* or cannot be sliced raises TypeError to the caller, also when that
\* collection is empty; no Page is returned.
C21_CollectionTypeError ==
    (pc # "new" /\ collection.kind # "list") =>
        (pc = "raised" /\ raised = "TypeError")

\* ------------------------------------------------------ claims: frame
\* C22: once the Page is constructed, no pager() call (and no _range call in
\* it) changes page, items_per_page, item_count, first_page, page_count,
\* last_page, first_item, last_item, previous_page, next_page or the items.
C22_FieldsNeverChange ==
    [][pc = "page" => fields' = fields]_vars

\* C22 witness: pager() ran _range on a page after the first, and the fields
\* are those the constructor computed
C22_Witness ==
    /\ PagerCalled /\ radius # None
    /\ page_count > 1 /\ page > first_page
    /\ page = ClampPage(ParsePage(page_arg), first_page, last_page)
    /\ first_item = FirstItem(page, items_per_page)
    /\ items = Slice(collection, first_item - 1, last_item)

\* ------------------------------------------------- claims: interleaving
\* What a pager() call with the arguments of thread t returns when no other
\* call runs between its statements
Alone(t) ==
    PagerOutcome(threads[t].format, threads[t].show, threads[t].sep,
                 threads[t].curAttr, threads[t].dotAttr).result

\* C23: two pager() calls on the same Page with different options, their
\* statements interleaved in any order, each return exactly what they return
\* when run alone.
C23_CallsIndependent ==
    \A t \in Threads :
        threads[t].pc = "returned" => threads[t].result = Alone(t)

RECURSIVE AnchorCount(_)
AnchorCount(text) ==
    IF text = <<>> THEN 0
    ELSE (IF Head(text) = "<a href=" THEN 1 ELSE 0) + AnchorCount(Tail(text))

\* C25: _pagerlink is called exactly once per link of the rendered output and
\* never otherwise; a format that references no link_* placeholder and has no
\* range token causes no call.
C25_CallbackOncePerLink ==
    PagerCalled => Len(calls) = AnchorCount(result.out)

\* --------------------------------------------------- claims: item ranges
\* The range of items the constructor computes for page p of this collection
FirstItemOf(p) == FirstItem(p, items_per_page)

LastItemOf(p) == LastItem(FirstItemOf(p), items_per_page, item_count)

\* C26: for item_count > 0 the item ranges of the pages 1..page_count tile
\* the collection: page 1 starts at item 1, each next page starts right after
\* the last item of the page before, the last page ends at item_count, and
\* every page holds at least one item; the constructed Page holds the range
\* of its page.
C26_ItemRangesTile ==
    (Constructed /\ item_count > 0) =>
        /\ first_item = FirstItemOf(page) /\ last_item = LastItemOf(page)
        /\ first_item <= last_item
        /\ page = 1 => first_item = 1
        /\ page > 1 => first_item = LastItemOf(page - 1) + 1
        /\ page = page_count => last_item = item_count
        /\ FirstItemOf(1) = 1
        /\ LastItemOf(page_count) = item_count
        /\ \A p \in 1..page_count : FirstItemOf(p) <= LastItemOf(p)
        /\ \A p \in 1..(page_count - 1) : FirstItemOf(p + 1) = LastItemOf(p) + 1

\* C26 witness: the last of several pages, and it is not full
C26_Witness ==
    /\ Constructed /\ item_count > 0
    /\ page_count > 2 /\ page = page_count
    /\ last_item - first_item + 1 < items_per_page

\* ------------------------------------------------ claims: range ordering
\* The page an entry of nav_items stands for, as a link or as the current
\* page; None for a gap and for anything else
PageOf(e) ==
    IF \E p \in 1..page_count : IsPageEntry(e, p) \/ IsCurrentPageEntry(e, p)
    THEN CHOOSE p \in 1..page_count : IsPageEntry(e, p) \/ IsCurrentPageEntry(e, p)
    ELSE None

\* C27: every _range call returns entries whose page numbers strictly
\* increase from left to right: two neighbouring page entries are consecutive
\* numbers, the pages on the two sides of a gap differ by at least 2, a gap is
\* never the first or the last entry, and two gaps are never adjacent.
C27_RangeOrdered ==
    RangeCalled =>
        /\ result.exc = ""
        /\ nav_items # <<>>
        /\ \A i \in 1..Len(nav_items) :
              IsGap(nav_items[i]) \/ PageOf(nav_items[i]) # None
        /\ ~IsGap(nav_items[1]) /\ ~IsGap(nav_items[Len(nav_items)])
        /\ \A i \in 1..(Len(nav_items) - 1) :
              /\ ~(IsGap(nav_items[i]) /\ IsGap(nav_items[i + 1]))
              /\ (~IsGap(nav_items[i]) /\ ~IsGap(nav_items[i + 1])) =>
                    PageOf(nav_items[i + 1]) = PageOf(nav_items[i]) + 1
              /\ (~IsGap(nav_items[i]) /\ IsGap(nav_items[i + 1])
                    /\ i + 2 <= Len(nav_items)) =>
                    PageOf(nav_items[i + 2]) >= PageOf(nav_items[i]) + 2

\* -------------------------------------------------- claims: items held
\* C28 as stated: a Page holds last_item - first_item + 1 items when
\* item_count > 0 and none when item_count = 0, whether item_count was counted
\* or supplied by the caller.
C28_ItemsCountAlways ==
    Constructed =>
        /\ item_count > 0 => Len(items) = last_item - first_item + 1
        /\ item_count = 0 => Len(items) = 0

\* C28 amended: a Page holds last_item - first_item + 1 items when
\* item_count > 0 and the collection has at least last_item items, which is
\* so whenever item_count was counted or the supplied item_count is not above
\* the collection's length; a collection with fewer items gives only the items
\* of the range that exist; with item_count = 0 the Page holds none.
C28_ItemsCountWhenCovered ==
    Constructed =>
        /\ (item_count > 0 /\ Len(collection.elems) >= last_item) =>
              Len(items) = last_item - first_item + 1
        /\ (item_count > 0 /\ Len(collection.elems) < last_item) =>
              Len(items) = Max(Len(collection.elems) - (first_item - 1), 0)
        /\ (item_count_arg = None \/ item_count_arg <= Len(collection.elems)) =>
              (item_count > 0 => Len(collection.elems) >= last_item)
        /\ item_count = 0 => Len(items) = 0

\* C28 witness: the caller supplied an item_count below the collection's
\* length, and the Page is a later page with several items
C28_Witness ==
    /\ Constructed /\ item_count_arg # None
    /\ item_count > 1 /\ item_count < Len(collection.elems)
    /\ page > 1 /\ Len(items) >= 2
    /\ Len(items) = last_item - first_item + 1

====
